---- MODULE Spec2Model ----
(***************************************************************************)
(* A model of markups/restructuredtext.py: the reStructuredText adapter of *)
(* python-markups.  Python strings are sequences of one-character strings, *)
(* dictionaries are functions whose domain is the set of keys present, and *)
(* objects live in a heap indexed by reference.                            *)
(***************************************************************************)
EXTENDS Integers, Sequences, FiniteSets

VARIABLES
    docutils,    \* what "import docutils" finds: ImportError, or the package's __version__
    sphinx,      \* whether "from sphinx.ext.graphviz import ..." succeeds in this process
    heap,        \* reference -> dict: every dictionary object alive in the process
    adapters,    \* sequence of the ReStructuredTextMarkup objects constructed so far
    registry,    \* docutils' global directive registry: directive name -> handler
    valuesEnv,   \* the class attribute docutils.frontend.Values.env
    builders,    \* sequence of the SphinxBuilder objects created so far
    tmpdirs,     \* per directory made by mkdtemp: the number of rmtree() calls on it
    conv,        \* the latest convert() call: adapter, text and what it returned
    js,          \* the latest get_javascript() call: webenv and what it returned
    avail,       \* the latest available() call: what import found and what it returned
    exited       \* whether the interpreter has exited

vars == <<docutils, sphinx, heap, adapters, registry, valuesEnv, builders, tmpdirs, conv, js, avail, exited>>

\* ------------------------------------------------------------------ bounds

MaxAdapters == 2
MaxBuilders == 3
MaxVerLen == 4

\* ------------------------------------------------------------ Python strings

None == <<"None">>

Max(a, b) == IF a > b THEN a ELSE b
Min(a, b) == IF a < b THEN a ELSE b

\* s[i:j] with Python's clamping of negative and out-of-range indices
Slice(s, i, j) ==
    LET n  == Len(s)
        lo == IF i < 0 THEN Max(i + n, 0) ELSE Min(i, n)
        hi == IF j < 0 THEN Max(j + n, 0) ELSE Min(j, n)
    IN  IF lo >= hi THEN <<>> ELSE [k \in 1..(hi - lo) |-> s[lo + k]]

\* whether sub occurs in s at 0-based offset i
OccursAt(s, sub, i) ==
    /\ i >= 0
    /\ i + Len(sub) <= Len(s)
    /\ \A k \in 1..Len(sub) : s[i + k] = sub[k]

Offsets(s, sub) == {i \in 0..Len(s) : OccursAt(s, sub, i)}

\* str.find: the lowest offset of sub in s, or -1
Find(s, sub) ==
    LET found == Offsets(s, sub)
    IN  IF found = {} THEN -1 ELSE CHOOSE i \in found : \A j \in found : i <= j

\* str.rfind: the highest offset of sub in s, or -1
RFind(s, sub) ==
    LET found == Offsets(s, sub)
    IN  IF found = {} THEN -1 ELSE CHOOSE i \in found : \A j \in found : i >= j

\* the "in" operator on strings
Contains(s, sub) == Find(s, sub) # -1

\* str.startswith
StartsWith(s, prefix) == OccursAt(s, prefix, 0)

EndsWith(s, suffix) == OccursAt(s, suffix, Len(s) - Len(suffix))

\* ------------------------------------------------------------ os.path (posix)

Slash == <<"/">>

\* os.path.dirname
dirname(p) ==
    LET i    == RFind(p, Slash) + 1
        head == Slice(p, 0, i)
        RECURSIVE rstrip(_)
        rstrip(h) == IF h # <<>> /\ h[Len(h)] = "/" THEN rstrip(Slice(h, 0, Len(h) - 1)) ELSE h
    IN  IF head # <<>> /\ \E k \in 1..Len(head) : head[k] # "/" THEN rstrip(head) ELSE head

\* os.path.join of two components
join(a, b) ==
    IF StartsWith(b, Slash) THEN b
    ELSE IF a = <<>> \/ a[Len(a)] = "/" THEN a \o b
    ELSE a \o Slash \o b

\* the working directory of the process
Cwd == <<"/", "w">>

\* os.path.abspath on paths without ".", ".." or doubled slashes, where
\* normpath only turns the empty path into the working directory itself
abspath(p) ==
    IF StartsWith(p, Slash) THEN p
    ELSE IF p = <<>> THEN Cwd
    ELSE join(Cwd, p)

\* ------------------------------------------------------------ dictionaries

EmptyDict == [k \in {} |-> None]

\* dict.update: the entries of u replace or extend those of d
Update(d, u) ==
    [k \in (DOMAIN d) \cup (DOMAIN u) |-> IF k \in DOMAIN u THEN u[k] ELSE d[k]]

\* whether Python treats the value as true ("x or y", "if x")
Truthy(x) == x # None /\ x # <<>>

\* ------------------------------------------------------- markups.common

\* common.MATHJAX_WEB_URL
MATHJAX_WEB_URL ==
    <<"h", "t", "t", "p", "s", ":", "/", "/", "c", "d", "n", "/",
      "M", "a", "t", "h", "J", "a", "x", ".", "j", "s">>

\* the URL of the locally installed MathJax
MATHJAX_LOCAL_URL ==
    <<"f", "i", "l", "e", ":", "/", "/", "/", "u", "s", "r", "/",
      "M", "a", "t", "h", "J", "a", "x", ".", "j", "s">>

\* common.get_mathjax_url(webenv)
get_mathjax_url(webenv) == IF webenv THEN MATHJAX_WEB_URL ELSE MATHJAX_LOCAL_URL

\* common.get_pygments_stylesheet('.code')
get_pygments_stylesheet == <<".", "c", "o", "d", "e", "{", "}", "\n">>

\* ------------------------------------------------------- string literals

\* '<style type="text/css">'
stylestart ==
    <<"<", "s", "t", "y", "l", "e", " ", "t", "y", "p", "e", "=", "\"",
      "t", "e", "x", "t", "/", "c", "s", "s", "\"", ">">>

\* '</style>'
styleend == <<"<", "/", "s", "t", "y", "l", "e", ">">>

\* '?config=TeX-AMS_CHTML'
ConfigSuffix ==
    <<"?", "c", "o", "n", "f", "i", "g", "=", "T", "e", "X", "-", "A", "M", "S",
      "_", "C", "H", "T", "M", "L">>

\* 'MathJax.js?config=TeX-AMS_CHTML'
MathJaxMarker == <<"M", "a", "t", "h", "J", "a", "x", ".", "j", "s">> \o ConfigSuffix

\* '<script type="text/javascript" src="'
ScriptOpen ==
    <<"<", "s", "c", "r", "i", "p", "t", " ", "t", "y", "p", "e", "=", "\"",
      "t", "e", "x", "t", "/", "j", "a", "v", "a", "s", "c", "r", "i", "p", "t",
      "\"", " ", "s", "r", "c", "=", "\"">>

\* '"></script>\n'
ScriptClose == <<"\"", ">", "<", "/", "s", "c", "r", "i", "p", "t", ">", "\n">>

\* 'MathJax '
MathJaxMode == <<"M", "a", "t", "h", "J", "a", "x", " ">>

\* ------------------------------------------------------- settings overrides

HTML == <<"H", "T", "M", "L">>
Short == <<"s", "h", "o", "r", "t">>
Long == <<"l", "o", "n", "g">>
False == <<"False">>

\* the two entries the constructor writes
FixedOverrides ==
    [k \in {"math_output", "syntax_highlight"} |->
        IF k = "math_output" THEN MathJaxMode \o MATHJAX_WEB_URL \o ConfigSuffix ELSE Short]

\* the values a caller gives each key
ValuesOf(k) ==
    CASE k = "math_output"      -> {HTML, FixedOverrides["math_output"]}
      [] k = "syntax_highlight" -> {Long, Short}
      [] k = "embed_stylesheet" -> {False}

Keys == {"math_output", "syntax_highlight", "embed_stylesheet"}

\* ------------------------------------------------------- SphinxEnvironment

NoEnv == [attached |-> FALSE, dir |-> None]

\* SphinxEnvironment.__init__
SphinxEnvironment(filename) ==
    [attached |-> TRUE,
     dir |-> IF Truthy(filename) THEN abspath(dirname(filename)) ELSE None]

\* SphinxEnvironment.relfn2path
relfn2path(self, filename) ==
    IF Truthy(self.dir) /\ ~StartsWith(filename, Slash)
    THEN <<None, join(self.dir, filename)>>
    ELSE <<None, filename>>

\* ------------------------------------------------------- stylesheet

\* convert, "Determine stylesheet": the text between the tags, then the
\* Pygments stylesheet
ExtractStylesheet(origstyle) ==
    LET stylesheet ==
            IF Contains(origstyle, stylestart)
            THEN Slice(origstyle, Find(origstyle, stylestart) + 25, RFind(origstyle, styleend))
            ELSE <<>>
    IN  stylesheet \o get_pygments_stylesheet

\* ------------------------------------------------------- get_javascript

\* get_javascript without the test of the head
get_javascript_ungated(self, webenv) ==
    ScriptOpen \o get_mathjax_url(webenv) \o ConfigSuffix \o ScriptClose

\* ConvertedReStructuredText.get_javascript
get_javascript(self, webenv) ==
    IF ~Contains(self.head, MathJaxMarker) THEN <<>>
    ELSE ScriptOpen \o get_mathjax_url(webenv) \o ConfigSuffix \o ScriptClose

\* ------------------------------------------------------- LooseVersion

\* the characters of version strings, in code-point order
CodePoints == <<".", "0", "1", "2", "3", "4", "5", "6", "7", "8", "9", "a", "b">>

Ord(c) == CHOOSE i \in 1..Len(CodePoints) : CodePoints[i] = c

IsDigit(c) == c \in {"0", "1", "2", "3", "4", "5", "6", "7", "8", "9"}

\* the class of a character under component_re, (\d+ | [a-z]+ | \.)
CharClass(c) == IF IsDigit(c) THEN "digits" ELSE IF c = "." THEN "dot" ELSE "letters"

RECURSIVE ToInt(_)
\* int() of a run of digits
ToInt(digits) ==
    IF digits = <<>> THEN 0
    ELSE 10 * ToInt(SubSeq(digits, 1, Len(digits) - 1)) + (Ord(digits[Len(digits)]) - 2)

\* the last index of the run of one character class that starts at i
RunEnd(s, i) ==
    CHOOSE j \in i..Len(s) :
        /\ \A k \in i..j : CharClass(s[k]) = CharClass(s[i])
        /\ j = Len(s) \/ CharClass(s[j + 1]) # CharClass(s[i])

RECURSIVE ParseFrom(_, _)
\* LooseVersion.parse: the pieces component_re splits off, dots and empty
\* pieces dropped, runs of digits turned into integers
ParseFrom(vstring, i) ==
    IF i > Len(vstring) THEN <<>>
    ELSE IF vstring[i] = "." THEN ParseFrom(vstring, i + 1)
    ELSE LET j     == RunEnd(vstring, i)
             piece == SubSeq(vstring, i, j)
             comp  == IF IsDigit(piece[1])
                      THEN [kind |-> "int", int |-> ToInt(piece), str |-> <<>>]
                      ELSE [kind |-> "str", int |-> 0, str |-> piece]
         IN  <<comp>> \o ParseFrom(vstring, j + 1)

LooseVersion(vstring) == ParseFrom(vstring, 1)

SameComponent(x, y) == x.kind = y.kind /\ x.int = y.int /\ x.str = y.str

RECURSIVE StrLess(_, _)
\* str < str
StrLess(x, y) ==
    IF y = <<>> THEN FALSE
    ELSE IF x = <<>> THEN TRUE
    ELSE IF x[1] # y[1] THEN Ord(x[1]) < Ord(y[1])
    ELSE StrLess(Tail(x), Tail(y))

\* list < list in Python 3: the first pair of unequal components decides, and
\* ordering an integer against a string raises TypeError
ListLess(a, b) ==
    LET diff == {i \in 1..Min(Len(a), Len(b)) : ~SameComponent(a[i], b[i])}
    IN  IF diff = {} THEN (IF Len(a) < Len(b) THEN "True" ELSE "False")
        ELSE LET i == CHOOSE i \in diff : \A j \in diff : i <= j
             IN  IF a[i].kind # b[i].kind THEN "TypeError"
                 ELSE IF a[i].kind = "int"
                      THEN (IF a[i].int < b[i].int THEN "True" ELSE "False")
                      ELSE (IF StrLess(a[i].str, b[i].str) THEN "True" ELSE "False")

\* LooseVersion.__ge__ through _cmp: ==, then <, then >
VersionGE(a, b) ==
    IF Len(a) = Len(b) /\ \A i \in 1..Len(a) : SameComponent(a[i], b[i]) THEN "True"
    ELSE IF ListLess(a, b) = "TypeError" THEN "TypeError"
    ELSE IF ListLess(a, b) = "True" THEN "False"
    ELSE "True"

\* ------------------------------------------------------- available

\* what "import docutils" finds when the package is missing
ImportError == <<"ImportError">>

\* '0.13'
MinVersion == <<"0", ".", "1", "3">>

\* ReStructuredTextMarkup.available: what it returns ("True", "False") or
\* raises ("TypeError"), given what "import docutils" finds
available ==
    IF docutils = ImportError THEN "False"
    ELSE VersionGE(LooseVersion(docutils), LooseVersion(MinVersion))

\* ------------------------------------------------------- the renderer

\* the sources handed to convert: plain text ("Hello *world*"), text with
\* a math role, a graphviz directive naming a relative or an absolute file,
\* and an include of a missing file (a SEVERE system message, which halts)
Texts == {"plain", "math", "graph_rel", "graph_abs", "severe"}

\* the file a text's graphviz directive names, or None
DiagramFile(text) ==
    CASE text = "graph_rel" -> <<"g">>
      [] text = "graph_abs" -> <<"/", "g">>
      [] OTHER              -> None

\* '<meta charset="utf-8"/>\n'
MetaTag ==
    <<"<", "m", "e", "t", "a", " ", "c", "h", "a", "r", "s", "e", "t", "=", "\"",
      "u", "t", "f", "-", "8", "\"", "/", ">", "\n">>

\* '<link rel="stylesheet" href="h.css" type="text/css" />\n'
LinkTag ==
    <<"<", "l", "i", "n", "k", " ", "r", "e", "l", "=", "\"", "s", "t", "y", "l",
      "e", "s", "h", "e", "e", "t", "\"", " ", "h", "r", "e", "f", "=", "\"", "h",
      ".", "c", "s", "s", "\"", " ", "t", "y", "p", "e", "=", "\"", "t", "e", "x",
      "t", "/", "c", "s", "s", "\"", " ", "/", ">", "\n">>

\* the text of docutils' own stylesheet
Css == <<"b", "{", "}">>

HTMLTranslator == [name |-> "HTMLTranslator", builder |-> 0]

NoParts == [head |-> <<>>, html_body |-> <<>>, title |-> <<>>, stylesheet |-> <<>>]

\* Publisher.set_source and Publisher.publish on this adapter's publisher,
\* then writer.parts; the renderer is a function of the text, the settings
\* the publisher copied at construction, the translator class, the global
\* directive registry and Values.env
publish(self, text) ==
    LET settings == self.settings
        mathjax  == /\ "math_output" \in DOMAIN settings
                    /\ StartsWith(settings["math_output"], MathJaxMode)
        head     == MetaTag \o
                    (IF text = "math" /\ mathjax
                     THEN ScriptOpen
                          \o Slice(settings["math_output"], Len(MathJaxMode),
                                   Len(settings["math_output"]))
                          \o ScriptClose
                     ELSE <<>>)
        linked   == /\ "embed_stylesheet" \in DOMAIN settings
                    /\ settings["embed_stylesheet"] = False
        style    == IF linked THEN LinkTag
                    ELSE stylestart \o <<"\n", "\n">> \o Css \o <<"\n">> \o styleend \o <<"\n">>
        file     == DiagramFile(text)
        known    == "graphviz" \in DOMAIN registry
        visits   == self.translator_class.name = "SphinxTranslator"
        raised   == \/ text = "severe"
                    \/ file # None /\ known /\ ~(visits /\ valuesEnv.attached)
        body     == IF file = None THEN <<text>>
                    ELSE IF ~known THEN <<text, "Unknown directive type">>
                    ELSE <<text>> \o relfn2path(valuesEnv, file)[2]
    IN  IF raised THEN [raised |-> TRUE, parts |-> NoParts]
        ELSE [raised |-> FALSE,
              parts  |-> [head |-> head, html_body |-> body, title |-> <<>>,
                          stylesheet |-> style]]

\* ConvertedReStructuredText.__init__
ConvertedReStructuredText(head, body, title, stylesheet) ==
    [head |-> head, body |-> body, title |-> title, stylesheet |-> stylesheet]

NoDoc == ConvertedReStructuredText(<<>>, <<>>, <<>>, <<>>)

NoConv == [adapter |-> 0, text |-> "", outcome |-> "none", doc |-> NoDoc]

NoJs == [called |-> FALSE, webenv |-> FALSE, out |-> <<>>]

NoAvail == [called |-> FALSE, result |-> ""]

\* ------------------------------------------------------- construction

\* the caller's own mapping object, and the settings_overrides arguments:
\* NoRef for None, CallerRef for that mapping
NoRef == 0
CallerRef == 1
ArgRefs == {NoRef, CallerRef}

\* lines 82-86 with the update turned round: the caller's entries win
InitOverrides_callerwins(h, settings_overrides) ==
    LET fresh == settings_overrides = NoRef \/ h[settings_overrides] = EmptyDict
        ref   == IF fresh THEN Len(h) + 1 ELSE settings_overrides
        h1    == IF fresh THEN Append(h, EmptyDict) ELSE h
    IN  [ref |-> ref, heap |-> [h1 EXCEPT ![ref] = Update(FixedOverrides, @)]]

\* lines 82-86 with a copy: "dict(settings_overrides or {})"
InitOverrides_copy(h, settings_overrides) ==
    LET given == IF settings_overrides = NoRef THEN EmptyDict ELSE h[settings_overrides]
    IN  [ref |-> Len(h) + 1, heap |-> Append(h, Update(given, FixedOverrides))]

\* ReStructuredTextMarkup.__init__, lines 82-86: "settings_overrides or {}"
\* keeps the caller's object unless it is None or empty, and update()
\* writes the two fixed entries into whichever object that is
InitOverrides(h, settings_overrides) ==
    LET fresh == settings_overrides = NoRef \/ h[settings_overrides] = EmptyDict
        ref   == IF fresh THEN Len(h) + 1 ELSE settings_overrides
        h1    == IF fresh THEN Append(h, EmptyDict) ELSE h
    IN  [ref |-> ref, heap |-> [h1 EXCEPT ![ref] = Update(@, FixedOverrides)]]

\* SphinxBuilder.__init__: mkdtemp makes a directory, or raises OSError and
\* leaves the object without its outdir attribute (outdir 0)
SphinxBuilder(owner, mkdtemp_ok) ==
    [outdir    |-> IF mkdtemp_ok THEN Len(tmpdirs) + 1 ELSE 0,
     owner     |-> IF mkdtemp_ok THEN owner ELSE 0,
     finalized |-> FALSE]

\* _register_sphinx_directives with the three register_directive calls
\* made whether or not the import succeeded
register_sphinx_directives_eager(self, index, mkdtemp_ok) ==
    [registry |-> Update(registry, [n \in {"graphviz", "graph", "digraph"} |->
                                       IF n = "graphviz" THEN "Graphviz" ELSE "GraphvizSimple"]),
     translator_class |-> self.translator_class,
     valuesEnv |-> valuesEnv, builders |-> builders, tmpdirs |-> tmpdirs,
     raised |-> FALSE]

\* ReStructuredTextMarkup._register_sphinx_directives for the adapter self,
\* the index-th of the process: what it leaves in the registry, the writer's
\* translator class, Values.env, the builders and the directories, and
\* whether it raised
register_sphinx_directives(self, index, mkdtemp_ok) ==
    IF ~sphinx
    THEN [registry |-> registry, translator_class |-> self.translator_class,
          valuesEnv |-> valuesEnv, builders |-> builders, tmpdirs |-> tmpdirs,
          raised |-> FALSE]
    ELSE LET registered ==
                 Update(registry, [n \in {"graphviz", "graph", "digraph"} |->
                                      IF n = "graphviz" THEN "Graphviz" ELSE "GraphvizSimple"])
             builder == SphinxBuilder(index, mkdtemp_ok)
         IN  IF mkdtemp_ok
             THEN [registry |-> registered,
                   translator_class |-> [name |-> "SphinxTranslator",
                                         builder |-> Len(builders) + 1],
                   valuesEnv |-> SphinxEnvironment(self.filename),
                   builders |-> Append(builders, builder),
                   tmpdirs |-> Append(tmpdirs, 0),
                   raised |-> FALSE]
             ELSE [registry |-> registered, translator_class |-> self.translator_class,
                   valuesEnv |-> valuesEnv, builders |-> Append(builders, builder),
                   tmpdirs |-> tmpdirs, raised |-> TRUE]

\* ReStructuredTextMarkup(filename, settings_overrides); mkdtemp_ok is
\* whether the operating system lets mkdtemp make its directory
Construct(filename, settings_overrides, mkdtemp_ok) ==
    /\ ~exited
    /\ Len(adapters) < MaxAdapters
    /\ Len(builders) < MaxBuilders
    /\ LET o    == InitOverrides(heap, settings_overrides)
           self == [filename |-> filename, overrides |-> o.ref,
                    settings |-> o.heap[o.ref], translator_class |-> HTMLTranslator,
                    alive |-> TRUE]
           r    == register_sphinx_directives(self, Len(adapters) + 1, mkdtemp_ok)
       IN  IF docutils = ImportError
           THEN \* "from docutils.core import Publisher" raises after line 87
                /\ heap' = o.heap
                /\ UNCHANGED <<adapters, registry, valuesEnv, builders, tmpdirs>>
           ELSE /\ heap' = o.heap
                /\ registry' = r.registry
                /\ valuesEnv' = r.valuesEnv
                /\ builders' = r.builders
                /\ tmpdirs' = r.tmpdirs
                /\ adapters' = IF r.raised THEN adapters
                               ELSE Append(adapters,
                                        [self EXCEPT !.translator_class = r.translator_class])
    /\ UNCHANGED <<docutils, sphinx, conv, js, avail, exited>>

\* ------------------------------------------------------- convert

\* convert that also attaches its own environment to Values
Convert_setenv(a, text) ==
    /\ ~exited
    /\ a \in 1..Len(adapters)
    /\ adapters[a].alive
    /\ valuesEnv' = SphinxEnvironment(adapters[a].filename)
    /\ LET out   == publish(adapters[a], text)
           parts == out.parts
       IN  conv' = IF out.raised
                   THEN [adapter |-> a, text |-> text, outcome |-> "raised", doc |-> NoDoc]
                   ELSE [adapter |-> a, text |-> text, outcome |-> "returned",
                         doc |-> ConvertedReStructuredText(parts.head, parts.html_body,
                                     parts.title, ExtractStylesheet(parts.stylesheet))]
    /\ UNCHANGED <<docutils, sphinx, heap, adapters, registry, builders, tmpdirs, js, avail, exited>>

\* ReStructuredTextMarkup.convert on the a-th adapter
Convert(a, text) ==
    /\ ~exited
    /\ a \in 1..Len(adapters)
    /\ adapters[a].alive
    /\ LET out   == publish(adapters[a], text)
           parts == out.parts
       IN  conv' = IF out.raised
                   THEN [adapter |-> a, text |-> text, outcome |-> "raised", doc |-> NoDoc]
                   ELSE [adapter |-> a, text |-> text, outcome |-> "returned",
                         doc |-> ConvertedReStructuredText(parts.head, parts.html_body,
                                     parts.title, ExtractStylesheet(parts.stylesheet))]
    /\ UNCHANGED <<docutils, sphinx, heap, adapters, registry, valuesEnv, builders, tmpdirs, js, avail, exited>>

\* get_javascript on the document the latest convert returned
GetJavascript(webenv) ==
    /\ ~exited
    /\ conv.outcome = "returned"
    /\ js' = [called |-> TRUE, webenv |-> webenv, out |-> get_javascript(conv.doc, webenv)]
    /\ UNCHANGED <<docutils, sphinx, heap, adapters, registry, valuesEnv, builders, tmpdirs, conv, avail, exited>>

\* a call of ReStructuredTextMarkup.available()
Available ==
    /\ ~exited
    /\ avail' = [called |-> TRUE, result |-> available]
    /\ UNCHANGED <<docutils, sphinx, heap, adapters, registry, valuesEnv, builders, tmpdirs, conv, js, exited>>

\* ------------------------------------------------------- the caller

\* the caller stores a value in its own mapping
CallerSet(k, v) ==
    /\ ~exited
    /\ heap' = [heap EXCEPT ![CallerRef] = Update(@, [x \in {k} |-> v])]
    /\ UNCHANGED <<docutils, sphinx, adapters, registry, valuesEnv, builders, tmpdirs, conv, js, avail, exited>>

\* the caller drops its last reference to the a-th adapter
Drop(a) ==
    /\ ~exited
    /\ a \in 1..Len(adapters)
    /\ adapters[a].alive
    /\ adapters' = [adapters EXCEPT ![a].alive = FALSE]
    /\ UNCHANGED <<docutils, sphinx, heap, registry, valuesEnv, builders, tmpdirs, conv, js, avail, exited>>

\* ------------------------------------------------------- object lifetime

\* SphinxBuilder.__del__ on the builders in bs: rmtree(self.outdir), where
\* a builder without outdir raises AttributeError before rmtree is called
Finalize(bs) ==
    /\ builders' = [b \in 1..Len(builders) |->
                       IF b \in bs THEN [builders[b] EXCEPT !.finalized = TRUE]
                       ELSE builders[b]]
    /\ tmpdirs' = [d \in 1..Len(tmpdirs) |->
                      tmpdirs[d] + Cardinality({b \in bs : builders[b].outdir = d})]

\* a builder nothing refers to any more: its adapter was dropped, or the
\* construction that created it raised
Unreachable(b) ==
    /\ ~builders[b].finalized
    /\ IF builders[b].owner = 0 THEN TRUE ELSE ~adapters[builders[b].owner].alive

\* the garbage collector frees the b-th builder
Collect(b) ==
    /\ ~exited
    /\ b \in 1..Len(builders)
    /\ Unreachable(b)
    /\ Finalize({b})
    /\ UNCHANGED <<docutils, sphinx, heap, adapters, registry, valuesEnv, conv, js, avail>>
    /\ UNCHANGED exited

\* the interpreter exits; Python does not guarantee that __del__ runs for
\* the objects that still exist then, so it runs for some set bs of them
Exit(bs) ==
    /\ ~exited
    /\ bs \subseteq {b \in 1..Len(builders) : ~builders[b].finalized}
    /\ Finalize(bs)
    /\ exited' = TRUE
    /\ UNCHANGED <<docutils, sphinx, heap, adapters, registry, valuesEnv, conv, js, avail>>

\* ------------------------------------------------------- specifications

\* the filenames adapters are constructed with
Filenames == {None, <<"/", "a", "/", "x">>, <<"/", "b", "/", "x">>, <<"x">>}

VersionChars == {"0", "1", "2", "3", ".", "b"}

RECURSIVE StringsUpTo(_)
StringsUpTo(n) ==
    IF n = 0 THEN {<<>>}
    ELSE LET shorter == StringsUpTo(n - 1)
         IN  shorter \cup {Append(s, c) : s \in {t \in shorter : Len(t) = n - 1}, c \in VersionChars}

\* what "import docutils" can find
Docutils == {ImportError} \cup StringsUpTo(MaxVerLen)

\* a process that has constructed nothing yet
Fresh ==
    /\ sphinx \in BOOLEAN
    /\ heap = <<EmptyDict>>
    /\ adapters = <<>>
    /\ registry = EmptyDict
    /\ valuesEnv = NoEnv
    /\ builders = <<>>
    /\ tmpdirs = <<>>
    /\ conv = NoConv
    /\ js = NoJs
    /\ avail = NoAvail
    /\ exited = FALSE

\* a process with docutils 0.13 installed
Init == docutils = MinVersion /\ Fresh

\* a process with any docutils, or none
InitAvailable == docutils \in Docutils /\ Fresh

Next ==
    \/ \E f \in Filenames, r \in ArgRefs, ok \in BOOLEAN : Construct(f, r, ok)
    \/ \E a \in 1..MaxAdapters, t \in Texts : Convert(a, t)
    \/ \E w \in BOOLEAN : GetJavascript(w)
    \/ Available
    \/ \E k \in Keys : \E v \in ValuesOf(k) : CallerSet(k, v)
    \/ \E a \in 1..MaxAdapters : Drop(a)
    \/ \E b \in 1..MaxBuilders : Collect(b)
    \/ \E bs \in SUBSET (1..MaxBuilders) : Exit(bs)

Spec == Init /\ [][Next]_vars

\* construction with and without the caller's mapping, the caller's writes
\* to it, and conversion
NextOverrides ==
    \/ \E r \in ArgRefs : Construct(None, r, TRUE)
    \/ \E a \in 1..MaxAdapters : Convert(a, "plain")
    \/ \E k \in Keys : \E v \in ValuesOf(k) : CallerSet(k, v)

SpecOverrides == Init /\ [][NextOverrides]_vars

\* adapters for different source files, and conversion of every text
NextConvert ==
    \/ \E f \in Filenames : Construct(f, NoRef, TRUE)
    \/ \E a \in 1..MaxAdapters, t \in Texts : Convert(a, t)

SpecConvert == Init /\ [][NextConvert]_vars

\* conversion and the script hint
NextJavascript ==
    \/ Construct(None, NoRef, TRUE)
    \/ \E a \in 1..MaxAdapters, t \in Texts : Convert(a, t)
    \/ \E w \in BOOLEAN : GetJavascript(w)

SpecJavascript == Init /\ [][NextJavascript]_vars

\* the life of the builders and their directories
NextLifetime ==
    \/ \E ok \in BOOLEAN : Construct(None, NoRef, ok)
    \/ \E a \in 1..MaxAdapters : Drop(a)
    \/ \E b \in 1..MaxBuilders : Collect(b)
    \/ \E bs \in SUBSET (1..MaxBuilders) : Exit(bs)

SpecLifetime == Init /\ [][NextLifetime]_vars

\* the availability probe
NextAvailable == Available

SpecAvailable == InitAvailable /\ [][NextAvailable]_vars

\* ------------------------------------------------------- properties

\* the step is the call convert(text) on the a-th adapter (a call that
\* returns what the call before it returned leaves the state as it was)
IsConvert(a, text) == conv'.adapter = a /\ conv'.text = text /\ Convert(a, text)

\* the step is a construction that returned an adapter
IsConstruct(f, r, ok) == Len(adapters') > Len(adapters) /\ Construct(f, r, ok)

HasFixed(o) ==
    /\ DOMAIN FixedOverrides \subseteq DOMAIN o
    /\ \A k \in DOMAIN FixedOverrides : o[k] = FixedOverrides[k]

\* C1: whatever mapping M the caller passes (none, an empty one, one that
\* sets math_output or syntax_highlight to other values), the overrides of
\* the adapter just constructed hold the two fixed values and M's value
\* under every other key of M, and no convert call changes any adapter's
\* overrides.
C1_ForcedOverrides ==
    [][/\ \A f \in Filenames, r \in ArgRefs, ok \in BOOLEAN :
            IsConstruct(f, r, ok) =>
                LET M == IF r = NoRef THEN EmptyDict ELSE heap[r]
                    o == heap'[adapters'[Len(adapters')].overrides]
                IN  /\ HasFixed(o)
                    /\ \A k \in (DOMAIN M) \ (DOMAIN FixedOverrides) :
                           k \in DOMAIN o /\ o[k] = M[k]
       /\ \A a \in 1..Len(adapters), t \in Texts :
            IsConvert(a, t) =>
                \A b \in 1..Len(adapters) :
                    /\ adapters'[b].overrides = adapters[b].overrides
                    /\ heap'[adapters'[b].overrides] = heap[adapters[b].overrides]
      ]_vars

\* an adapter built on the caller's mapping, which held another key when
\* the adapter was built, has converted a text
C1_Witness ==
    /\ conv.outcome = "returned"
    /\ adapters[conv.adapter].overrides = CallerRef
    /\ "embed_stylesheet" \in DOMAIN adapters[conv.adapter].settings
    /\ HasFixed(heap[CallerRef])

\* C10: the constructor does not copy. Given a non-empty mapping, the
\* adapter's overrides is the caller's own object, into which the two fixed
\* entries are written (so two adapters built from it share it, and what
\* the caller stores in it later is what the adapter's overrides holds);
\* given None or an empty mapping, the adapter's overrides is a new object
\* and the caller's mapping is left as it was.
C10_NoCopy ==
    [][/\ \A f \in Filenames, r \in ArgRefs, ok \in BOOLEAN :
            IsConstruct(f, r, ok) =>
                LET new == adapters'[Len(adapters')]
                IN  IF r # NoRef /\ heap[r] # EmptyDict
                    THEN /\ new.overrides = r
                         /\ HasFixed(heap'[r])
                    ELSE /\ new.overrides \notin DOMAIN heap
                         /\ heap'[CallerRef] = heap[CallerRef]
       /\ \A k \in Keys : \A v \in ValuesOf(k) :
            CallerSet(k, v) =>
                \A a \in 1..Len(adapters) :
                    adapters[a].overrides = CallerRef =>
                        heap'[adapters'[a].overrides][k] = v
      ]_vars

\* two adapters share the caller's mapping as their overrides
C10_Witness ==
    /\ Len(adapters) >= 2
    /\ adapters[1].overrides = CallerRef
    /\ adapters[2].overrides = CallerRef

\* the stylesheet the claim describes for a raw fragment: the text between
\* the opening literal and the closing tag that follows it, then the
\* Pygments stylesheet; the Pygments stylesheet alone without the literal
ClaimedStylesheet(origstyle) ==
    LET open   == Find(origstyle, stylestart) + Len(stylestart)
        closes == {i \in Offsets(origstyle, styleend) : i >= open}
        close  == CHOOSE i \in closes : \A j \in closes : i <= j
    IN  IF Contains(origstyle, stylestart)
        THEN Slice(origstyle, open, close) \o get_pygments_stylesheet
        ELSE get_pygments_stylesheet

\* C2: the stylesheet convert returns is exactly the text between the
\* opening literal <style type="text/css"> and the closing </style> of the
\* renderer's raw fragment, followed by the Pygments stylesheet, and the
\* Pygments stylesheet alone when the fragment has no opening literal.
C2_ExactBody ==
    [][\A a \in 1..Len(adapters), t \in Texts :
            IsConvert(a, t) /\ conv'.outcome = "returned" =>
                conv'.doc.stylesheet =
                    ClaimedStylesheet(publish(adapters[a], t).parts.stylesheet)
      ]_vars

\* the number of "<script" openings in s
ScriptCount(s) == Cardinality(Offsets(s, <<"<", "s", "c", "r", "i", "p", "t">>))

\* C3: get_javascript returns the empty string for both webenv values when
\* the head lacks the MathJax marker; when the head holds it, it returns
\* one script tag whose src is the base URL webenv selects followed by
\* ?config=TeX-AMS_CHTML, so the two webenv values give different results;
\* the call leaves the document as it was.
C3_JavascriptGate ==
    [][\A w \in BOOLEAN :
            GetJavascript(w) =>
                /\ conv' = conv
                /\ IF ~Contains(conv.doc.head, MathJaxMarker)
                   THEN js'.out = <<>> /\ get_javascript(conv.doc, ~w) = <<>>
                   ELSE LET src == Slice(js'.out, Len(ScriptOpen),
                                         Len(js'.out) - Len(ScriptClose))
                        IN  /\ js'.out # <<>>
                            /\ ScriptCount(js'.out) = 1
                            /\ StartsWith(js'.out, ScriptOpen)
                            /\ EndsWith(js'.out, ScriptClose)
                            /\ EndsWith(src, ConfigSuffix)
                            /\ Slice(src, 0, Len(src) - Len(ConfigSuffix))
                                   = (IF w THEN MATHJAX_WEB_URL ELSE MATHJAX_LOCAL_URL)
                            /\ js'.out # get_javascript(conv.doc, ~w)
      ]_vars

\* get_javascript has returned a script tag for a document with math
C3_Witness ==
    /\ js.called
    /\ js.out # <<>>
    /\ conv.text = "math"
    /\ Contains(conv.doc.head, MathJaxMarker)

\* get_javascript has returned the empty string for a document without math
C3_WitnessEmpty ==
    /\ js.called
    /\ js.out = <<>>
    /\ conv.text = "plain"

RECURSIVE SplitDots(_)
\* the pieces of s between its dots
SplitDots(s) ==
    IF Find(s, <<".">>) = -1 THEN <<s>>
    ELSE <<Slice(s, 0, Find(s, <<".">>))>> \o SplitDots(Slice(s, Find(s, <<".">>) + 1, Len(s)))

\* a dotted version all of whose components are numbers
IsNumericVersion(s) ==
    \A i \in 1..Len(SplitDots(s)) :
        /\ SplitDots(s)[i] # <<>>
        /\ \A k \in 1..Len(SplitDots(s)[i]) : IsDigit(SplitDots(s)[i][k])

RECURSIVE NumericGE(_, _)
\* component-wise numeric >= of two lists of numbers, a missing component
\* counting as 0
NumericGE(a, b) ==
    IF a = <<>> /\ b = <<>> THEN TRUE
    ELSE LET x == IF a = <<>> THEN 0 ELSE a[1]
             y == IF b = <<>> THEN 0 ELSE b[1]
         IN  IF x # y THEN x > y
             ELSE NumericGE(IF a = <<>> THEN a ELSE Tail(a), IF b = <<>> THEN b ELSE Tail(b))

\* C4: available() never raises; it returns false when docutils cannot be
\* imported, and otherwise true exactly when the reported version is at
\* least 0.13, components compared as numbers.
C4_AvailableTotal ==
    avail.called =>
        /\ avail.result \in {"True", "False"}
        /\ docutils = ImportError => avail.result = "False"
        /\ docutils # ImportError /\ IsNumericVersion(docutils) =>
               (avail.result = "True") =
                   NumericGE([i \in 1..Len(SplitDots(docutils)) |-> ToInt(SplitDots(docutils)[i])],
                             <<0, 13>>)

\* C4 on the versions that are dotted numbers: available() returns a
\* boolean, true exactly when the version is at least 0.13
C4_NumericVersions ==
    avail.called /\ docutils # ImportError /\ IsNumericVersion(docutils) =>
        /\ avail.result \in {"True", "False"}
        /\ (avail.result = "True") =
               NumericGE([i \in 1..Len(SplitDots(docutils)) |-> ToInt(SplitDots(docutils)[i])],
                         <<0, 13>>)

\* C5: a convert call, whether it returns or raises, leaves every adapter's
\* overrides, filename, settings and translator class, the directive
\* registry and Values.env as they were; the registry changes only in a
\* construction, and a construction runs the registration (which creates
\* one builder each time it runs) at most once.
C5_ConvertFrame ==
    [][/\ \A a \in 1..Len(adapters), t \in Texts :
            IsConvert(a, t) =>
                /\ adapters' = adapters
                /\ heap' = heap
                /\ registry' = registry
                /\ valuesEnv' = valuesEnv
                /\ builders' = builders
       /\ registry' # registry \/ Len(builders') # Len(builders) =>
            /\ \E f \in Filenames, r \in ArgRefs, ok \in BOOLEAN : Construct(f, r, ok)
            /\ Len(builders') <= Len(builders) + 1
      ]_vars

\* a convert call has raised on an adapter wired for diagrams
C5_Witness ==
    /\ conv.outcome = "raised"
    /\ adapters[conv.adapter].translator_class.name = "SphinxTranslator"
    /\ valuesEnv.attached

\* C6: a convert call with the adapter and text of the convert call before
\* it returns the same document, whatever happened between the two.
C6_RepeatedConvert ==
    [][\A a \in 1..Len(adapters), t \in Texts :
            (/\ IsConvert(a, t)
             /\ conv.adapter = a /\ conv.text = t
             /\ conv.outcome = "returned" /\ conv'.outcome = "returned")
            => conv'.doc = conv.doc
      ]_vars

\* C7: each directory mkdtemp made belongs to one builder, is removed once
\* and never twice, and none is left when the interpreter has exited.
C7_RemovedExactlyOnce ==
    /\ \A d \in 1..Len(tmpdirs) :
            /\ Cardinality({b \in 1..Len(builders) : builders[b].outdir = d}) = 1
            /\ tmpdirs[d] <= 1
    /\ \A b \in 1..Len(builders) :
            builders[b].finalized /\ builders[b].outdir # 0 => tmpdirs[builders[b].outdir] = 1
    /\ exited => \A d \in 1..Len(tmpdirs) : tmpdirs[d] = 1

\* C7 without the interpreter's exit: a directory belongs to one builder
\* and is removed when that builder is finalized, never twice
C7_WhileRunning ==
    /\ \A d \in 1..Len(tmpdirs) :
            /\ Cardinality({b \in 1..Len(builders) : builders[b].outdir = d}) = 1
            /\ tmpdirs[d] <= 1
    /\ \A b \in 1..Len(builders) :
            builders[b].outdir # 0 =>
                tmpdirs[builders[b].outdir] = (IF builders[b].finalized THEN 1 ELSE 0)

\* C8: when the graphviz extension cannot be imported, a construction
\* returns an adapter with the stock translator class and leaves the
\* registry, Values.env, the builders and the directories alone; when it
\* can, the registry then maps graphviz to the general handler and graph
\* and digraph to the simple one.
C8_OptionalExtension ==
    [][\A f \in Filenames, r \in ArgRefs, ok \in BOOLEAN :
            Construct(f, r, ok) =>
                IF ~sphinx
                THEN /\ Len(adapters') = Len(adapters) + 1
                     /\ adapters'[Len(adapters')].translator_class = HTMLTranslator
                     /\ registry' = registry
                     /\ DOMAIN registry' \cap {"graphviz", "graph", "digraph"} = {}
                     /\ valuesEnv' = valuesEnv
                     /\ ~valuesEnv'.attached
                     /\ builders' = builders
                     /\ tmpdirs' = tmpdirs /\ tmpdirs' = <<>>
                ELSE /\ registry'["graphviz"] = "Graphviz"
                     /\ registry'["graph"] = "GraphvizSimple"
                     /\ registry'["digraph"] = "GraphvizSimple"
      ]_vars

\* an adapter was constructed in a process without the extension
C8_Witness ==
    /\ ~sphinx
    /\ Len(adapters) >= 1
    /\ adapters[1].translator_class = HTMLTranslator

\* the names a graphviz directive refers to files by
RefNames == {<<"g">>, <<"/", "g">>}

\* C9: at every convert call on an adapter wired for diagrams, Values.env
\* resolves a name against the directory of that adapter's own file: a
\* relative name is joined to the absolute directory of the adapter's
\* filename, and an absolute name, or any name when the adapter has no
\* filename, comes back unchanged.
C9_OwnDirectory ==
    [][\A a \in 1..Len(adapters), t \in Texts :
            IsConvert(a, t) /\ adapters[a].translator_class.name = "SphinxTranslator" =>
                \A n \in RefNames :
                    relfn2path(valuesEnv, n) =
                        (IF Truthy(adapters[a].filename) /\ ~StartsWith(n, Slash)
                         THEN <<None, join(abspath(dirname(adapters[a].filename)), n)>>
                         ELSE <<None, n>>)
      ]_vars

====
